---- MODULE Spec2Model ----
(***************************************************************************)
(* A model of poetry's distribution packaging engine:                      *)
(*   - poetry/masonry/utils/tags.py      (PEP 425 compatibility tags)      *)
(*   - poetry/masonry/builders/sdist.py  (sdist builder)                   *)
(*   - poetry/packages/dependency.py     (Dependency value object)         *)
(* Python strings are TLA+ strings; Python's None is the string None.      *)
(***************************************************************************)
EXTENDS Integers, Sequences, FiniteSets, TLC

VARIABLES env, versions, supplied_platform, tagsPc, targets, supported, warned

tagVars == <<env, versions, supplied_platform, tagsPc, targets, supported, warned>>

\* Dependency objects and convert_dependencies
VARIABLES deps, package_extras, depsPc, ops, lastError, main, extras

depVars == <<deps, package_extras, depsPc, ops, lastError, main, extras>>

\* SdistBuilder.build
VARIABLES tree, package, run, runEnv, pc, idx, pending,
          tarState, gzState, tarCloses, gzCloses, archive

buildVars == <<tree, package, run, runEnv, pc, idx, pending,
               tarState, gzState, tarCloses, gzCloses, archive>>

\* SdistBuilder.find_packages
VARIABLES sep, dirTree, stack, subpkg_paths, packages, pkg_data, records, findPc

findVars == <<sep, dirTree, stack, subpkg_paths, packages, pkg_data, records, findPc>>

\* the comparison of two Dependency objects
VARIABLES objects, cmpPc, equal, hashes

cmpVars == <<objects, cmpPc, equal, hashes>>

vars == <<tagVars, depVars, buildVars, findVars, cmpVars>>

\* what the actions of one component leave alone
notTagVars == <<depVars, buildVars, findVars, cmpVars>>
notDepVars == <<tagVars, buildVars, findVars, cmpVars>>
notBuildVars == <<tagVars, depVars, findVars, cmpVars>>
notFindVars == <<tagVars, depVars, buildVars, cmpVars>>
notCmpVars == <<tagVars, depVars, buildVars, findVars>>

(***************************************************************************)
(* Bounds of the model.                                                    *)
(***************************************************************************)
MaxMinor == 3
MaxMicro == 1
\* the number of python_versions assignments and activate() calls made on the
\* dependencies before they are rendered
MaxOps == 2
\* the number of files of the source tree
MaxFiles == 2
\* the number of directories below the package root, and their depth
MaxDirs == 3
MaxDepth == 3

(***************************************************************************)
(* Python values and string helpers.                                       *)
(***************************************************************************)
None == "<None>"

\* Python truthiness of an optional string: None and "" are falsy.
Truthy(s) == s # None /\ s # ""

\* A configuration variable that is not set (config_var returns None) where
\* the set values are integers.
Unset == -1

Digit(d) == SubSeq("0123456789", d + 1, d + 1)

RECURSIVE Str(_)
\* str(n) for a natural number n
Str(n) == IF n < 10 THEN Digit(n) ELSE Str(n \div 10) \o Digit(n % 10)

RECURSIVE JoinInts(_)
\* "".join(map(str, t))
JoinInts(t) == IF Len(t) = 0 THEN "" ELSE Str(Head(t)) \o JoinInts(Tail(t))

RECURSIVE Replace(_, _, _)
\* s.replace(c, d) for a one-character c
Replace(s, c, d) ==
    IF Len(s) = 0 THEN ""
    ELSE (IF SubSeq(s, 1, 1) = c THEN d ELSE SubSeq(s, 1, 1))
             \o Replace(SubSeq(s, 2, Len(s)), c, d)

StartsWith(s, p) == Len(s) >= Len(p) /\ SubSeq(s, 1, Len(p)) = p

RECURSIVE SplitFrom(_, _, _, _)
\* the parts of s[i..] split on the one-character separator c, cur being the
\* part under construction
SplitFrom(s, c, i, cur) ==
    IF i > Len(s) THEN <<cur>>
    ELSE IF SubSeq(s, i, i) = c THEN <<cur>> \o SplitFrom(s, c, i + 1, "")
    ELSE SplitFrom(s, c, i + 1, cur \o SubSeq(s, i, i))

\* s.split(c)
Split(s, c) == SplitFrom(s, c, 1, "")

RECURSIVE SetToSeq(_)
\* a list of the elements of a finite set
SetToSeq(S) ==
    IF S = {} THEN <<>>
    ELSE LET x == CHOOSE y \in S : TRUE IN <<x>> \o SetToSeq(S \ {x})

(***************************************************************************)
(* tags.py: the environment descriptor and the host interpreter.           *)
(*                                                                         *)
(* env is a record:                                                        *)
(*   python_implementation : the implementation family name                *)
(*   version_info          : <<major, minor, micro>>                       *)
(*   py_version_nodot, SOABI            : optional strings (config vars)   *)
(*   Py_DEBUG, WITH_PYMALLOC, Py_UNICODE_SIZE : integers or Unset          *)
(*   suffixes              : imp.get_suffixes(), the suffix strings        *)
(*   distutils_platform    : distutils.util.get_platform()                 *)
(*   maxsize32             : sys.maxsize == 2147483647                     *)
(*   gettotalrefcount      : hasattr(sys, "gettotalrefcount")              *)
(* The host runs this code, so it is a Python 3 interpreter: sys.maxunicode*)
(* exists and equals 0x10ffff.                                             *)
(***************************************************************************)
HasMaxUnicode == TRUE
MaxUnicodeWide == TRUE

get_abbr_impl(e) ==
    LET impl == e.python_implementation IN
    IF impl = "PyPy" THEN "pp"
    ELSE IF impl = "Jython" THEN "jy"
    ELSE IF impl = "IronPython" THEN "ip"
    ELSE IF impl = "CPython" THEN "cp"
    ELSE "<LookupError>"

KnownImpl(e) == get_abbr_impl(e) # "<LookupError>"

get_impl_version_info(e) ==
    IF get_abbr_impl(e) = "pp" THEN SubSeq(e.version_info, 1, 3)
    ELSE SubSeq(e.version_info, 1, 2)

get_impl_ver(e) ==
    LET impl_ver == e.py_version_nodot IN
    IF ~Truthy(impl_ver) \/ get_abbr_impl(e) = "pp"
    THEN JoinInts(get_impl_version_info(e))
    ELSE impl_ver

\* get_flag's result; val is the config var's value, expected True is 1
get_flag(val, fallback, expected) ==
    IF val = Unset THEN fallback ELSE val = expected

\* get_flag's warning: the set of variables warned about
get_flag_warns(var, val, warn) ==
    IF val = Unset /\ warn THEN {var} ELSE {}

\* env.version_info < (3, 3)
Before33(e) ==
    \/ e.version_info[1] < 3
    \/ e.version_info[1] = 3 /\ e.version_info[2] < 3

\* whether get_abi_tag takes the emulation branch
Emulates(e) ==
    ~Truthy(e.SOABI) /\ get_abbr_impl(e) \in {"cp", "pp"} /\ HasMaxUnicode

get_abi_tag(e) ==
    LET soabi == e.SOABI
        impl  == get_abbr_impl(e)
    IN
    IF Emulates(e) THEN
        LET d == IF get_flag(e.Py_DEBUG, e.gettotalrefcount, 1) THEN "d" ELSE ""
            m == IF get_flag(e.WITH_PYMALLOC, impl = "cp", 1) THEN "m" ELSE ""
            u == IF get_flag(e.Py_UNICODE_SIZE, MaxUnicodeWide, 4) /\ Before33(e)
                 THEN "u" ELSE ""
        IN impl \o get_impl_ver(e) \o d \o m \o u
    ELSE IF Truthy(soabi) /\ StartsWith(soabi, "cpython-")
         THEN "cp" \o Split(soabi, "-")[2]
    ELSE IF Truthy(soabi) THEN Replace(Replace(soabi, ".", "_"), "-", "_")
    ELSE None

\* the warnings get_abi_tag's probes emit
get_abi_tag_warns(e) ==
    LET impl == get_abbr_impl(e) IN
    IF Emulates(e) THEN
        get_flag_warns("Py_DEBUG", e.Py_DEBUG, impl = "cp")
        \cup get_flag_warns("WITH_PYMALLOC", e.WITH_PYMALLOC, impl = "cp")
        \cup get_flag_warns("Py_UNICODE_SIZE", e.Py_UNICODE_SIZE,
                            impl = "cp" /\ Before33(e))
    ELSE {}

get_platform(e) ==
    LET result == Replace(Replace(e.distutils_platform, ".", "_"), "-", "_") IN
    IF result = "linux_x86_64" /\ e.maxsize32 THEN "linux_i686" ELSE result

\* DefaultVersions with the two-component version for every family
DefaultVersions_TwoComponents(e) ==
    LET version_info == SubSeq(e.version_info, 1, 2)
        major == SubSeq(version_info, 1, 1)
        last  == version_info[2]
    IN [k \in 1..(last + 1) |-> JoinInts(major \o <<last - (k - 1)>>)]

\* versions is None: the current version and every lower last component
DefaultVersions(e) ==
    LET version_info == get_impl_version_info(e)
        n     == Len(version_info)
        major == SubSeq(version_info, 1, n - 1)
        last  == version_info[n]
    IN [k \in 1..(last + 1) |-> JoinInts(major \o <<last - (k - 1)>>)]

\* the abi3 tags among imp.get_suffixes()
Abi3s(e) ==
    {Split(e.suffixes[i], ".")[2] :
        i \in {j \in 1..Len(e.suffixes) : StartsWith(e.suffixes[j], ".abi")}}

\* [(interp, abi, arch) for abi in abis for arch in platforms]
Cross(interp, abis, platforms) ==
    LET np == Len(platforms) IN
    [k \in 1..(Len(abis) * np) |->
        <<interp, abis[((k - 1) \div np) + 1], platforms[((k - 1) % np) + 1]>>]

RECURSIVE OlderAbi3(_, _, _, _)
\* the loop over versions[1:], which stops at "31" or "30"
OlderAbi3(impl, vs, abi3seq, platforms) ==
    IF Len(vs) = 0 \/ Head(vs) \in {"31", "30"} THEN <<>>
    ELSE Cross(impl \o Head(vs), abi3seq, platforms)
             \o OlderAbi3(impl, Tail(vs), abi3seq, platforms)

RECURSIVE NoAbi(_, _, _)
\* a (prefix + version, "none", "any") entry per version, the first one
\* followed by the entry of the first character (the major version)
NoAbi(prefix, vs, i) ==
    IF i > Len(vs) THEN <<>>
    ELSE <<<<prefix \o vs[i], "none", "any">>>>
         \o (IF i = 1 THEN <<<<prefix \o SubSeq(vs[1], 1, 1), "none", "any">>>>
             ELSE <<>>)
         \o NoAbi(prefix, vs, i + 1)

\* Abis with the ABI appended after "none" instead of inserted in front
Abis_AbiLast(e) ==
    LET abi == get_abi_tag(e) IN
    SetToSeq(Abi3s(e)) \o <<"none">> \o (IF Truthy(abi) THEN <<abi>> ELSE <<>>)

\* the abis list of get_supported
Abis(e) ==
    LET abi == get_abi_tag(e) IN
    (IF Truthy(abi) THEN <<abi>> ELSE <<>>) \o SetToSeq(Abi3s(e)) \o <<"none">>

\* the platforms list of get_supported
Platforms(e, supplied) ==
    (IF Truthy(supplied) THEN <<supplied>> ELSE <<>>) \o <<get_platform(e)>>

\* the value of the loop variable arch after the loops over platforms: both
\* loops end on the last platform, and the first one always runs
LoopArch(platforms) == platforms[Len(platforms)]

\* the versions get_supported targets; vs is [given, list]
TargetVersions(e, vs) == IF vs.given THEN vs.list ELSE DefaultVersions(e)

get_supported(e, vs, supplied) ==
    LET vers      == TargetVersions(e, vs)
        impl      == get_abbr_impl(e)
        abis      == Abis(e)
        abi3seq   == SetToSeq(Abi3s(e))
        platforms == Platforms(e, supplied)
        arch      == LoopArch(platforms)
    IN Cross(impl \o vers[1], abis, platforms)
       \o OlderAbi3(impl, Tail(vers), abi3seq, platforms)
       \o NoAbi(impl, vers, 1)
       \o <<<<"py" \o SubSeq(vers[1], 1, 1), "none", arch>>>>
       \o NoAbi("py", vers, 1)

\* the state of the comparison where it takes no part
CmpUnused ==
    /\ objects = <<>>
    /\ cmpPc = "unused"
    /\ equal = FALSE
    /\ hashes = <<>>

\* the state of the dependency component where it takes no part
DepsUnused ==
    /\ deps = <<>>
    /\ package_extras = <<>>
    /\ depsPc = "unused"
    /\ ops = 0
    /\ lastError = None
    /\ main = <<>>
    /\ extras = <<>>

\* the state of package discovery where it takes no part
FindUnused ==
    /\ sep = "/"
    /\ dirTree = <<>>
    /\ stack = <<>>
    /\ subpkg_paths = {}
    /\ packages = <<>>
    /\ pkg_data = <<>>
    /\ records = <<>>
    /\ findPc = "unused"

\* the state of the sdist builder where it takes no part
BuildUnused ==
    /\ tree = <<>>
    /\ package = [pretty_name |-> "", version |-> ""]
    /\ run = 0
    /\ runEnv = <<>>
    /\ pc = "unused"
    /\ idx = 0
    /\ pending = FALSE
    /\ tarState = "unopened"
    /\ gzState = "unopened"
    /\ tarCloses = 0
    /\ gzCloses = 0
    /\ archive = <<>>

(***************************************************************************)
(* The calls of get_supported the model makes.                             *)
(***************************************************************************)
Implementations == {"CPython", "PyPy", "Jython", "Stackless"}

VersionInfos == {<<ma, mi, mc>> : ma \in {2, 3}, mi \in (0..MaxMinor) \cup {9}, mc \in 0..MaxMicro}

\* the SOABI values a build of version vi reports
Soabis(vi) ==
    {None, "cpython-" \o JoinInts(SubSeq(vi, 1, 2)) \o "-x86_64-linux-gnu", "pypy3.6-41"}

\* the build flags (Py_DEBUG, WITH_PYMALLOC, Py_UNICODE_SIZE) and whether the
\* host is a debug build
FlagConfigs ==
    { <<Unset, Unset, Unset, FALSE>>, <<Unset, Unset, Unset, TRUE>>,
      <<0, 1, 4, FALSE>>, <<1, 0, 2, FALSE>> }

SuffixLists ==
    { <<".so">>, <<".cpython-36m-x86_64-linux-gnu.so", ".abi3.so", ".so">> }

\* distutils' platform and whether pointers are 32 bits wide
HostPlatforms ==
    { <<"linux-x86_64", FALSE>>, <<"linux-x86_64", TRUE>>, <<"macosx-10.9-x86_64", FALSE>> }

EnvsOf(vi) ==
    { [python_implementation |-> impl, version_info |-> vi,
       py_version_nodot |-> nodot, SOABI |-> soabi,
       Py_DEBUG |-> fl[1], WITH_PYMALLOC |-> fl[2], Py_UNICODE_SIZE |-> fl[3],
       gettotalrefcount |-> fl[4], suffixes |-> sfx,
       distutils_platform |-> hp[1], maxsize32 |-> hp[2]] :
        impl \in Implementations,
        nodot \in {None, JoinInts(SubSeq(vi, 1, 2))}, soabi \in Soabis(vi),
        fl \in FlagConfigs, sfx \in SuffixLists, hp \in HostPlatforms }

VersionArgs ==
    { [given |-> FALSE, list |-> <<>>],
      [given |-> TRUE, list |-> <<"27">>],
      [given |-> TRUE, list |-> <<"34", "33", "32", "31", "30">>] }

SuppliedPlatforms == {None, "linux_x86_64", "win32"}

InitTags ==
    /\ \E vi \in VersionInfos : env \in EnvsOf(vi)
    /\ versions \in VersionArgs
    /\ supplied_platform \in SuppliedPlatforms
    /\ tagsPc = "call"
    /\ targets = <<>>
    /\ supported = <<>>
    /\ warned = {}
    /\ DepsUnused
    /\ BuildUnused
    /\ FindUnused
    /\ CmpUnused

\* get_supported(env, versions, supplied_platform) returns
GetSupported ==
    /\ tagsPc = "call"
    /\ KnownImpl(env)
    /\ targets' = TargetVersions(env, versions)
    /\ supported' = get_supported(env, versions, supplied_platform)
    /\ warned' = get_abi_tag_warns(env)
    /\ tagsPc' = "returned"
    /\ UNCHANGED <<env, versions, supplied_platform>>
    /\ UNCHANGED notTagVars

\* get_abbr_impl raises LookupError: get_supported raises it
GetSupportedRaises ==
    /\ tagsPc = "call"
    /\ ~KnownImpl(env)
    /\ tagsPc' = "raised"
    /\ UNCHANGED <<env, versions, supplied_platform, targets, supported, warned>>
    /\ UNCHANGED notTagVars

NextTags == GetSupported \/ GetSupportedRaises

SpecTags == InitTags /\ [][NextTags]_vars

(***************************************************************************)
(* Claims about get_supported, checked under SpecTags.                     *)
(***************************************************************************)
Returned == tagsPc = "returned"

\* the first platform candidate of the call: the override when one is given,
\* otherwise the normalized native platform
FirstPlatform ==
    IF supplied_platform # None THEN supplied_platform ELSE get_platform(env)

\* the primary version of the call
PrimaryVersion ==
    IF versions.given THEN versions.list[1]
    ELSE JoinInts(get_impl_version_info(env))

\* C1: the sequence get_supported returns holds no (interpreter, abi,
\* platform) tuple more than once, whatever the environment, the version list
\* and the supplied platform.
C1_NoDuplicateTags ==
    Returned =>
        \A i, j \in 1..Len(supported) : i # j => supported[i] # supported[j]

\* C1, the failing call: the supplied platform is the native platform.
C1_SuppliedIsNative ==
    Returned /\ supplied_platform = get_platform(env)

\* C2: whenever get_abi_tag determines an ABI, the first tuple returned is
\* (abbreviation + primary version, that ABI, first platform candidate) and
\* its ABI is not "none".
C2_FirstTagIsPrimaryAbi ==
    Returned /\ get_abi_tag(env) # None =>
        /\ supported[1] =
              <<get_abbr_impl(env) \o PrimaryVersion, get_abi_tag(env), FirstPlatform>>
        /\ supported[1][2] # "none"

\* C2, the documented example: CPython 3.9 reporting SOABI
\* cpython-39-x86_64-linux-gnu on linux_x86_64 gets cp39-cp39-linux_x86_64 first.
C2_Example ==
    /\ Returned
    /\ env.python_implementation = "CPython"
    /\ env.SOABI = "cpython-39-x86_64-linux-gnu"
    /\ ~versions.given
    /\ supplied_platform = None
    /\ get_platform(env) = "linux_x86_64"
    /\ supported[1] = <<"cp39", "cp39", "linux_x86_64">>

\* the entries ("py" + major, "none", platform) with a platform other than "any"
PureMajorEntries ==
    {i \in 1..Len(supported) :
        /\ supported[i][1] = "py" \o SubSeq(targets[1], 1, 1)
        /\ supported[i][2] = "none"
        /\ supported[i][3] # "any"}

\* C8: the pure-major-version entry ("py" + major, "none", platform) is on the
\* first platform candidate: the override when given, else the native platform.
C8_PureMajorOnFirstPlatform ==
    Returned =>
        /\ Cardinality(PureMajorEntries) = 1
        /\ \A i \in PureMajorEntries : supported[i][3] = FirstPlatform

\* C8, the failing call: an override that differs from the native platform.
C8_OverrideGiven ==
    Returned /\ supplied_platform # None /\ supplied_platform # get_platform(env)

\* <major><minor> from minor m down to 0
MinorCountdown(major, m) == [k \in 1..(m + 1) |-> Str(major) \o Str(m - (k - 1))]

Upper == "ABCDEFGHIJKLMNOPQRSTUVWXYZ"
LowerCase == "abcdefghijklmnopqrstuvwxyz"

LowerChar(c) ==
    IF \E i \in 1..Len(Upper) : SubSeq(Upper, i, i) = c
    THEN LET i == CHOOSE k \in 1..Len(Upper) : SubSeq(Upper, k, k) = c
         IN SubSeq(LowerCase, i, i)
    ELSE c

RECURSIVE Lower(_)
\* str.lower
Lower(s) ==
    IF Len(s) = 0 THEN ""
    ELSE LowerChar(SubSeq(s, 1, 1)) \o Lower(SubSeq(s, 2, Len(s)))

\* whether sub occurs in s
Contains(s, sub) ==
    \E i \in 1..(Len(s) - Len(sub) + 1) : SubSeq(s, i, i + Len(sub) - 1) = sub

\* VersionParser.parse_constraints raises ValueError on these strings
Unparsable == {"not a constraint", "=>3.6"}

\* VersionParser.parse_constraints on the strings it accepts
parse_constraints(value) ==
    CASE value = "*"          -> [multi |-> FALSE, parts |-> <<"*">>]
      [] value = ">=3.6"      -> [multi |-> FALSE, parts |-> <<">= 3.6">>]
      [] value = "^3.4"       -> [multi |-> TRUE,  parts |-> <<">= 3.4", "< 4.0">>]
      [] value = "^1.0"       -> [multi |-> TRUE,  parts |-> <<">= 1.0", "< 2.0">>]
      [] value = ">=2.0,<3.0" -> [multi |-> TRUE,  parts |-> <<">= 2.0", "< 3.0">>]
      [] value = ">= 2.0, < 3.0" -> [multi |-> TRUE, parts |-> <<">= 2.0", "< 3.0">>]

Parses(value) == value \notin Unparsable

RECURSIVE JoinStripped(_, _)
\* ','.join([str(c).replace(' ', '') for c in constraints]) from index i on
JoinStripped(parts, i) ==
    IF i > Len(parts) THEN ""
    ELSE Replace(parts[i], " ", "")
         \o (IF i < Len(parts) THEN "," ELSE "")
         \o JoinStripped(parts, i + 1)

\* the rendering to_pep_508 makes of a constraint
Render(c) ==
    IF c.multi THEN JoinStripped(c.parts, 1)
    ELSE Replace(c.parts[1], " ", "")

\* Dependency.__init__(name, constraint, optional)
NewDependency(name, constraint, optional) ==
    [ name              |-> Lower(name),
      pretty_name       |-> name,
      constraint        |-> IF Parses(constraint) THEN parse_constraints(constraint)
                            ELSE parse_constraints("*"),
      pretty_constraint |-> constraint,
      optional          |-> optional,
      python_versions   |-> "*",
      python_constraint |-> parse_constraints("*") ]

\* the python_versions setter: the string is stored, then parsed
set_python_versions(d, value) ==
    IF Parses(value)
    THEN [d EXCEPT !.python_versions = value,
                   !.python_constraint = parse_constraints(value)]
    ELSE [d EXCEPT !.python_versions = value]

\* Dependency.activate
activate(d) == [d EXCEPT !.optional = FALSE]

\* the markers list of to_pep_508
Markers(d) ==
    IF d.python_versions # "*"
    THEN <<"python_version" \o Render(d.python_constraint)>>
    ELSE <<>>

RECURSIVE JoinAnd(_, _)
\* ' and '.join(markers) from index i on
JoinAnd(ms, i) ==
    IF i > Len(ms) THEN ""
    ELSE ms[i] \o (IF i < Len(ms) THEN " and " ELSE "") \o JoinAnd(ms, i + 1)

\* Dependency.to_pep_508
to_pep_508(d) ==
    LET requirement == d.pretty_name \o Render(d.constraint)
        markers     == Markers(d)
    IN IF Len(markers) > 0 THEN requirement \o "; " \o JoinAnd(markers, 1)
       ELSE requirement

(***************************************************************************)
(* sdist.py: SdistBuilder.convert_dependencies.                            *)
(* package.extras is a list of [name, reqs] in the dict's order, reqs the  *)
(* names of the extra's members.                                           *)
(***************************************************************************)
RECURSIVE Matches(_, _, _)
\* one requirement string per member of reqs named as d is
Matches(d, reqs, i) ==
    IF i > Len(reqs) THEN <<>>
    ELSE (IF reqs[i] = d.name THEN <<to_pep_508(d)>> ELSE <<>>)
         \o Matches(d, reqs, i + 1)

RECURSIVE ConvertMain_NoContinue(_, _)
\* ConvertMain without the continue that ends an optional dependency's turn
ConvertMain_NoContinue(dependencies, i) ==
    IF i > Len(dependencies) THEN <<>>
    ELSE <<to_pep_508(dependencies[i])>>
         \o ConvertMain_NoContinue(dependencies, i + 1)

RECURSIVE ConvertMain(_, _)
\* the list main after the loop over dependencies[i..]
ConvertMain(dependencies, i) ==
    IF i > Len(dependencies) THEN <<>>
    ELSE (IF dependencies[i].optional THEN <<>>
          ELSE <<to_pep_508(dependencies[i])>>)
         \o ConvertMain(dependencies, i + 1)

RECURSIVE ConvertExtra(_, _, _)
\* what the loop over dependencies[i..] appends to the list of an extra
ConvertExtra(dependencies, reqs, i) ==
    IF i > Len(dependencies) THEN <<>>
    ELSE (IF dependencies[i].optional THEN Matches(dependencies[i], reqs, 1)
          ELSE <<>>)
         \o ConvertExtra(dependencies, reqs, i + 1)

\* the keys of the defaultdict extras: the extras something was appended to
ExtraKeys(pkg_extras, dependencies) ==
    {pkg_extras[k].name : k \in
        {j \in 1..Len(pkg_extras) :
            Len(ConvertExtra(dependencies, pkg_extras[j].reqs, 1)) > 0}}

\* dict(extras)
ConvertExtras(pkg_extras, dependencies) ==
    [e \in ExtraKeys(pkg_extras, dependencies) |->
        LET k == CHOOSE j \in 1..Len(pkg_extras) : pkg_extras[j].name = e
        IN ConvertExtra(dependencies, pkg_extras[k].reqs, 1)]

(***************************************************************************)
(* The packages the model renders.                                         *)
(***************************************************************************)
DepNames == {"Requests", "ujson"}

ConstraintStrings == {">=2.0,<3.0", "^1.0", "not a constraint"}

PythonVersionStrings == {"*", ">=3.6", "^3.4", "=>3.6"}

\* a package's requires: dependencies of distinct names
DependencyLists ==
    { <<NewDependency(n, c, o)>> :
        n \in DepNames, c \in ConstraintStrings, o \in BOOLEAN }
    \cup
    { <<NewDependency("Requests", c1, o1), NewDependency("ujson", c2, o2)>> :
        c1 \in ConstraintStrings, o1 \in BOOLEAN,
        c2 \in ConstraintStrings, o2 \in BOOLEAN }

PackageExtras ==
    { <<>>,
      <<[name |-> "fast", reqs |-> <<"ujson">>]>>,
      <<[name |-> "fast", reqs |-> <<"ujson">>],
        [name |-> "net", reqs |-> <<"requests", "ujson">>],
        [name |-> "misc", reqs |-> <<"six">>]>> }

\* the state of the tag generator where it takes no part
TagsUnused ==
    /\ env = [python_implementation |-> "CPython"]
    /\ versions = [given |-> FALSE, list |-> <<>>]
    /\ supplied_platform = None
    /\ tagsPc = "unused"
    /\ targets = <<>>
    /\ supported = <<>>
    /\ warned = {}

InitDeps ==
    /\ deps \in DependencyLists
    /\ package_extras \in PackageExtras
    /\ depsPc = "idle"
    /\ ops = 0
    /\ lastError = None
    /\ main = <<>>
    /\ extras = <<>>
    /\ TagsUnused
    /\ BuildUnused
    /\ FindUnused
    /\ CmpUnused

\* deps[i].python_versions = value, which parses
SetPythonVersions(i, value) ==
    /\ depsPc = "idle" /\ ops < MaxOps
    /\ Parses(value)
    /\ deps' = [deps EXCEPT ![i] = set_python_versions(deps[i], value)]
    /\ lastError' = None
    /\ ops' = ops + 1
    /\ UNCHANGED <<package_extras, depsPc, main, extras>>
    /\ UNCHANGED notDepVars

\* deps[i].python_versions = value, which raises ValueError in the parser
SetPythonVersionsRaises(i, value) ==
    /\ depsPc = "idle" /\ ops < MaxOps
    /\ ~Parses(value)
    /\ deps' = [deps EXCEPT ![i] = set_python_versions(deps[i], value)]
    /\ lastError' = "ValueError"
    /\ ops' = ops + 1
    /\ UNCHANGED <<package_extras, depsPc, main, extras>>
    /\ UNCHANGED notDepVars

\* deps[i].activate()
Activate(i) ==
    /\ depsPc = "idle" /\ ops < MaxOps
    /\ deps' = [deps EXCEPT ![i] = activate(deps[i])]
    /\ lastError' = None
    /\ ops' = ops + 1
    /\ UNCHANGED <<package_extras, depsPc, main, extras>>
    /\ UNCHANGED notDepVars

\* SdistBuilder.convert_dependencies(package, package.requires)
ConvertDependencies ==
    /\ depsPc = "idle"
    /\ main' = ConvertMain(deps, 1)
    /\ extras' = ConvertExtras(package_extras, deps)
    /\ depsPc' = "converted"
    /\ UNCHANGED <<deps, package_extras, ops, lastError>>
    /\ UNCHANGED notDepVars

NextDeps ==
    \/ \E i \in 1..Len(deps), value \in PythonVersionStrings :
          SetPythonVersions(i, value)
    \/ \E i \in 1..Len(deps), value \in PythonVersionStrings :
          SetPythonVersionsRaises(i, value)
    \/ \E i \in 1..Len(deps) : Activate(i)
    \/ ConvertDependencies

SpecDeps == InitDeps /\ [][NextDeps]_vars

(***************************************************************************)
(* Claims about convert_dependencies and Dependency, checked under         *)
(* SpecDeps.                                                               *)
(***************************************************************************)
Converted == depsPc = "converted"

\* the package's extras whose members include the name
ExtrasNaming(name) ==
    {k \in 1..Len(package_extras) :
        \E j \in 1..Len(package_extras[k].reqs) : package_extras[k].reqs[j] = name}

InListOf(r, e) ==
    e \in DOMAIN extras /\ \E j \in 1..Len(extras[e]) : extras[e][j] = r

InMain(r) == \E j \in 1..Len(main) : main[j] = r

\* C3: convert_dependencies puts a dependency that is not optional in the
\* mandatory list and in no extras list, whatever extras name it; it keeps an
\* optional dependency out of the mandatory list and appends it to the list of
\* every extra whose members include its name; none is in both.
C3_MainOrExtras ==
    Converted =>
        \A i \in 1..Len(deps) :
            LET d == deps[i]
                r == to_pep_508(d)
            IN IF d.optional
               THEN /\ ~InMain(r)
                    /\ \A k \in ExtrasNaming(d.name) : InListOf(r, package_extras[k].name)
               ELSE /\ InMain(r)
                    /\ \A e \in DOMAIN extras : ~InListOf(r, e)

\* C3: a mandatory dependency that an extra names and an optional dependency
\* that an extra names were converted.
C3_BothKindsNamed ==
    /\ Converted
    /\ \E i \in 1..Len(deps) : ~deps[i].optional /\ ExtrasNaming(deps[i].name) # {}
    /\ \E i \in 1..Len(deps) : deps[i].optional /\ ExtrasNaming(deps[i].name) # {}
                                  /\ deps[i].python_versions # "*"

\* C10: after any construction, python_versions assignments (also one that
\* raises) and activate() calls, python_constraint is the parsed form of the
\* python_versions string; python_versions starts as "*"; to_pep_508 emits the
\* "; python_version" marker exactly when python_versions is not "*".
C10_PythonConstraintInSync ==
    \A i \in 1..Len(deps) :
        LET d == deps[i] IN
        /\ Parses(d.python_versions)
        /\ d.python_constraint = parse_constraints(d.python_versions)
        /\ ops = 0 => d.python_versions = "*"
        /\ Contains(to_pep_508(d), "; python_version") <=> d.python_versions # "*"

\* C10, the failing call: an assignment to python_versions raised ValueError.
C10_AssignmentRaised ==
    lastError = "ValueError"

(***************************************************************************)
(* sdist.py: SdistBuilder.build and clean_tarinfo.                         *)
(*                                                                         *)
(* tree is find_files_to_add's list: records [relpath, isreg, mode, size]. *)
(* A run's environment is what differs between two builds of one tree: the *)
(* wall clock, the files' modification time and the files' owner.          *)
(* archive[r] is what run r wrote: the gzip header's MTIME, the tar        *)
(* entries, and whether the end-of-archive blocks were written.            *)
(***************************************************************************)
\* the permission bits 0oabc
Oct(a, b, c) == a * 64 + b * 8 + c

\* helpers.normalize_file_permissions: 755 when the owner may execute, else 644
normalize_file_permissions(st_mode) ==
    IF (st_mode \div 64) % 2 = 1 THEN Oct(7, 5, 5) ELSE Oct(6, 4, 4)

\* posixpath.join of two relative paths
pjoin(a, b) == a \o "/" \o b

\* tar_dir
tar_dir(pkg) == pkg.pretty_name \o "-" \o pkg.version

\* tar.gettarinfo(path, arcname): the entry of a file as the filesystem has it
gettarinfo(file, e, arcname) ==
    [ name  |-> arcname,
      size  |-> IF file.isreg THEN file.size ELSE 0,
      isreg |-> file.isreg,
      mode  |-> file.mode,
      mtime |-> e.mtime,
      uid   |-> e.owner.uid,
      gid   |-> e.owner.gid,
      uname |-> e.owner.uname,
      gname |-> e.owner.gname ]

\* tarfile.TarInfo(name) with size set: tarfile's defaults
TarInfo(name, size) ==
    [ name  |-> name,
      size  |-> size,
      isreg |-> TRUE,
      mode  |-> Oct(6, 4, 4),
      mtime |-> 0,
      uid   |-> 0,
      gid   |-> 0,
      uname |-> "",
      gname |-> "" ]

\* clean_tarinfo without the reset of the numeric owner
clean_tarinfo_KeepsUid(tar_info) ==
    [tar_info EXCEPT !.uname = "",
                     !.gname = "",
                     !.mode = normalize_file_permissions(tar_info.mode)]

\* SdistBuilder.clean_tarinfo
clean_tarinfo(tar_info) ==
    [tar_info EXCEPT !.uid = 0,
                     !.gid = 0,
                     !.uname = "",
                     !.gname = "",
                     !.mode = normalize_file_permissions(tar_info.mode)]

\* build_setup's bytes; of the template only the name and the version are kept
build_setup(pkg) ==
    "setup(name=" \o pkg.pretty_name \o ", version=" \o pkg.version \o ")"

\* PKG_INFO.format(...); of the summary fields only the name and the version
\* are kept
PKG_INFO(pkg) ==
    "Metadata-Version: 1.1\nName: " \o pkg.pretty_name
        \o "\nVersion: " \o pkg.version \o "\n"

SourceFiles ==
    { [relpath |-> "demo_pkg/__init__.py", isreg |-> TRUE, mode |-> Oct(6, 6, 4), size |-> 10],
      [relpath |-> "bin/run", isreg |-> TRUE, mode |-> Oct(7, 7, 5), size |-> 20],
      [relpath |-> "latest", isreg |-> FALSE, mode |-> Oct(7, 7, 7), size |-> 0] }

\* the source trees: lists of distinct files
Trees ==
    UNION { {t \in [1..n -> SourceFiles] : \A i, j \in 1..n : i # j => t[i] # t[j]} :
            n \in 0..MaxFiles }

Owners ==
    { [uid |-> 0, gid |-> 0, uname |-> "root", gname |-> "root"],
      [uid |-> 1000, gid |-> 100, uname |-> "dev", gname |-> "users"] }

RunEnvs == [clock : {1000, 2000}, mtime : {500, 600}, owner : Owners]

EmptyArchive == [gzip_mtime |-> 0, entries |-> <<>>, ended |-> FALSE]

InitBuild ==
    /\ tree \in Trees
    /\ package = [pretty_name |-> "demo_pkg", version |-> "1.0.0"]
    /\ run = 1
    /\ runEnv \in [{1} -> RunEnvs]
    /\ pc = "start"
    /\ idx = 1
    /\ pending = FALSE
    /\ tarState = "unopened"
    /\ gzState = "unopened"
    /\ tarCloses = 0
    /\ gzCloses = 0
    /\ archive = [r \in {1} |-> EmptyArchive]
    /\ TagsUnused
    /\ DepsUnused
    /\ FindUnused
    /\ CmpUnused

Append1(entry) ==
    archive' = [archive EXCEPT ![run].entries = Append(@, entry)]

\* gz = GzipFile(target, mode='wb'): the header takes the current time
OpenGz ==
    /\ pc = "start"
    /\ gzState' = "open"
    /\ archive' = [archive EXCEPT ![run].gzip_mtime = runEnv[run].clock]
    /\ pc' = "open_tar"
    /\ UNCHANGED <<tree, package, run, runEnv, idx, pending, tarState, tarCloses, gzCloses>>
    /\ UNCHANGED notBuildVars

\* GzipFile cannot open the target: build raises
OpenGzRaises ==
    /\ pc = "start"
    /\ pc' = "raised"
    /\ UNCHANGED <<tree, package, run, runEnv, idx, pending, tarState, gzState,
                   tarCloses, gzCloses, archive>>
    /\ UNCHANGED notBuildVars

\* tar = tarfile.TarFile(target, mode='w', fileobj=gz)
OpenTar ==
    /\ pc = "open_tar"
    /\ tarState' = "open"
    /\ pc' = "try"
    /\ UNCHANGED <<tree, package, run, runEnv, idx, pending, gzState, tarCloses,
                   gzCloses, archive>>
    /\ UNCHANGED notBuildVars

\* one turn of the loop over files_to_add
AddFile ==
    /\ pc = "try" /\ idx <= Len(tree)
    /\ Append1(clean_tarinfo(
           gettarinfo(tree[idx], runEnv[run], pjoin(tar_dir(package), tree[idx].relpath))))
    /\ idx' = idx + 1
    /\ UNCHANGED <<tree, package, run, runEnv, pc, pending, tarState, gzState,
                   tarCloses, gzCloses>>
    /\ UNCHANGED notBuildVars

\* adding setup.py
AddSetup ==
    /\ pc = "try" /\ idx > Len(tree)
    /\ Append1(TarInfo(pjoin(tar_dir(package), "setup.py"), Len(build_setup(package))))
    /\ pc' = "pkg_info"
    /\ UNCHANGED <<tree, package, run, runEnv, idx, pending, tarState, gzState,
                   tarCloses, gzCloses>>
    /\ UNCHANGED notBuildVars

\* adding PKG-INFO, the last statement of the try block
AddPkgInfo ==
    /\ pc = "pkg_info"
    /\ Append1(TarInfo(pjoin(tar_dir(package), "PKG-INFO"), Len(PKG_INFO(package))))
    /\ pc' = "finally"
    /\ UNCHANGED <<tree, package, run, runEnv, idx, pending, tarState, gzState,
                   tarCloses, gzCloses>>
    /\ UNCHANGED notBuildVars

\* a statement of the try block raises (a file cannot be read, a write fails):
\* control goes to the finally block with the exception pending
TryRaises ==
    /\ pc \in {"try", "pkg_info"}
    /\ pending' = TRUE
    /\ pc' = "finally"
    /\ UNCHANGED <<tree, package, run, runEnv, idx, tarState, gzState,
                   tarCloses, gzCloses, archive>>
    /\ UNCHANGED notBuildVars

\* tar.close(): the end-of-archive blocks are written; gz, passed in as
\* fileobj, is left open
CloseTar ==
    /\ pc = "finally"
    /\ tarState' = "closed"
    /\ tarCloses' = tarCloses + 1
    /\ archive' = [archive EXCEPT ![run].ended = TRUE]
    /\ pc' = "finally_gz"
    /\ UNCHANGED <<tree, package, run, runEnv, idx, pending, gzState, gzCloses>>
    /\ UNCHANGED notBuildVars

\* tar.close() raises while writing the end-of-archive blocks: the writer is
\* marked closed, the exception leaves the finally block and build
CloseTarRaises ==
    /\ pc = "finally"
    /\ tarState' = "closed"
    /\ tarCloses' = tarCloses + 1
    /\ pc' = "raised"
    /\ UNCHANGED <<tree, package, run, runEnv, idx, pending, gzState, gzCloses, archive>>
    /\ UNCHANGED notBuildVars

\* gz.close(); a pending exception is re-raised after the finally block
CloseGz ==
    /\ pc = "finally_gz"
    /\ gzState' = "closed"
    /\ gzCloses' = gzCloses + 1
    /\ pc' = IF pending THEN "raised" ELSE "done"
    /\ UNCHANGED <<tree, package, run, runEnv, idx, pending, tarState, tarCloses, archive>>
    /\ UNCHANGED notBuildVars

\* gz.close() raises while flushing: the stream is closed all the same
CloseGzRaises ==
    /\ pc = "finally_gz"
    /\ gzState' = "closed"
    /\ gzCloses' = gzCloses + 1
    /\ pc' = "raised"
    /\ UNCHANGED <<tree, package, run, runEnv, idx, pending, tarState, tarCloses, archive>>
    /\ UNCHANGED notBuildVars

\* build is called again over the same tree and package, later or elsewhere
Rebuild ==
    /\ pc = "done" /\ run = 1
    /\ run' = 2
    /\ \E e \in RunEnvs : runEnv' = [r \in {1, 2} |-> IF r = 1 THEN runEnv[1] ELSE e]
    /\ archive' = [r \in {1, 2} |-> IF r = 1 THEN archive[1] ELSE EmptyArchive]
    /\ pc' = "start"
    /\ idx' = 1
    /\ pending' = FALSE
    /\ tarState' = "unopened"
    /\ gzState' = "unopened"
    /\ tarCloses' = 0
    /\ gzCloses' = 0
    /\ UNCHANGED <<tree, package>>
    /\ UNCHANGED notBuildVars

NextBuild ==
    \/ OpenGz \/ OpenGzRaises \/ OpenTar
    \/ AddFile \/ AddSetup \/ AddPkgInfo \/ TryRaises
    \/ CloseTar \/ CloseTarRaises \/ CloseGz \/ CloseGzRaises
    \/ Rebuild

SpecBuild == InitBuild /\ [][NextBuild]_vars

(***************************************************************************)
(* Claims about SdistBuilder.build, checked under SpecBuild.               *)
(***************************************************************************)
\* build has returned or raised after opening both the stream and the writer
Exited == pc \in {"done", "raised"} /\ tarState # "unopened"

\* C4: once the compression stream and the archive writer are open, on every
\* exit path of build, an error raised while closing the writer included, both
\* end up closed and each was closed exactly once.
C4_BothClosedOnce ==
    Exited =>
        /\ tarState = "closed" /\ tarCloses = 1
        /\ gzState = "closed" /\ gzCloses = 1

\* C4, the failing path: build raised with the writer closed.
C4_RaisedAfterOpen ==
    pc = "raised" /\ tarState = "closed" /\ ~pending

\* C5: two runs of build over the same tree and package write the same
\* archive: the clock, the files' modification times and their owner do not
\* reach it.
C5_SameArchive ==
    run = 2 /\ pc = "done" => archive[1] = archive[2]

\* C5, the failing runs: two builds of a tree ended, the second at another time.
C5_TwoBuilds ==
    run = 2 /\ pc = "done" /\ runEnv[1].clock # runEnv[2].clock

\* the normalized permission bits
NormalizedModes == {Oct(6, 4, 4), Oct(7, 5, 5)}

\* C6: every entry build appends (source entries, setup.py, PKG-INFO) has uid
\* 0, gid 0, empty owner and group names and permission bits 644 or 755.
C6_EntriesNormalized ==
    \A r \in DOMAIN archive :
        \A i \in 1..Len(archive[r].entries) :
            LET t == archive[r].entries[i] IN
            /\ t.uid = 0 /\ t.gid = 0
            /\ t.uname = "" /\ t.gname = ""
            /\ t.mode \in NormalizedModes

\* C6: a build ended whose source files belong to another user than root and
\* have other permission bits than the normalized ones.
C6_ForeignFilesArchived ==
    /\ pc = "done"
    /\ runEnv[run].owner.uid # 0
    /\ Len(tree) > 0
    /\ \A i \in 1..Len(tree) : tree[i].mode \notin NormalizedModes
    /\ Len(archive[run].entries) = Len(tree) + 2

(***************************************************************************)
(* sdist.py: SdistBuilder.find_packages.                                   *)
(*                                                                         *)
(* A directory is the list of the names from the package root down to it;  *)
(* dirTree maps each directory of the tree to whether it holds an          *)
(* __init__.py; sep is os.sep.  stack holds the directories os.walk has    *)
(* still to yield, the next one first.  records lists, in the order of the *)
(* walk, what was appended to pkg_data: [dir, pkg, pattern].               *)
(***************************************************************************)
\* the characters of paths and package names, in the order of their codes
Alphabet == "*./\\_abcdefghijklmnopqrstuvwxyz"

CharRank(c) == CHOOSE i \in 1..Len(Alphabet) : SubSeq(Alphabet, i, i) = c

RECURSIVE StrLess(_, _)
\* a < b on Python strings
StrLess(a, b) ==
    IF Len(b) = 0 THEN FALSE
    ELSE IF Len(a) = 0 THEN TRUE
    ELSE IF SubSeq(a, 1, 1) = SubSeq(b, 1, 1)
         THEN StrLess(SubSeq(a, 2, Len(a)), SubSeq(b, 2, Len(b)))
    ELSE CharRank(SubSeq(a, 1, 1)) < CharRank(SubSeq(b, 1, 1))

RECURSIVE Insert(_, _)
Insert(x, sorted) ==
    IF Len(sorted) = 0 THEN <<x>>
    ELSE IF StrLess(Head(sorted), x) THEN <<Head(sorted)>> \o Insert(x, Tail(sorted))
    ELSE <<x>> \o sorted

RECURSIVE Sorted(_)
\* sorted(list of str)
Sorted(l) == IF Len(l) = 0 THEN <<>> ELSE Insert(Head(l), Sorted(Tail(l)))

RECURSIVE Join(_, _)
\* c.join(parts)
Join(parts, c) ==
    IF Len(parts) = 0 THEN ""
    ELSE IF Len(parts) = 1 THEN parts[1]
    ELSE parts[1] \o c \o Join(Tail(parts), c)

pkg_name == "demo_pkg"

\* os.path.relpath(path, pkgdir) of a directory below the root
relpath(dir) == Join(dir, sep)

\* os.path.basename(path)
basename(dir) == IF Len(dir) = 0 THEN pkg_name ELSE dir[Len(dir)]

RECURSIVE NearestFrom(_, _, _)
\* find_nearest_pkg's loop from index i down to 1
NearestFrom(rel_path, parts, i) ==
    IF i < 1 THEN <<pkg_name, rel_path>>
    ELSE IF Join(SubSeq(parts, 1, i), "/") \in subpkg_paths
         THEN <<Join(<<pkg_name>> \o SubSeq(parts, 1, i), "."),
                Join(SubSeq(parts, i + 1, Len(parts)), "/")>>
    ELSE NearestFrom(rel_path, parts, i - 1)

\* find_nearest_pkg
find_nearest_pkg(rel_path) ==
    LET parts == Split(rel_path, sep)
    IN NearestFrom(rel_path, parts, Len(parts) - 1)

\* the sub-directories of a directory of the tree
Children(dir) ==
    {d \in DOMAIN dirTree : Len(d) = Len(dir) + 1 /\ SubSeq(d, 1, Len(dir)) = dir}

\* the orders in which os.walk may go through a set of directories
Orders(S) ==
    {o \in [1..Cardinality(S) -> S] : \A i, j \in 1..Cardinality(S) : i # j => o[i] # o[j]}

\* pkg_data[key].append(pattern) on the defaultdict
AppendTo(data, key, pattern) ==
    [k \in DOMAIN data \cup {key} |->
        IF k = key
        THEN (IF key \in DOMAIN data THEN data[key] ELSE <<>>) \o <<pattern>>
        ELSE data[k]]

DirNames == {"a", "data", "__pycache__"}

AllDirs == UNION {[1..n -> DirNames] : n \in 1..MaxDepth}

RECURSIVE TreesOf(_)
\* the sets of n directories below the root that hold each one's parent
TreesOf(n) ==
    IF n = 0 THEN {{}}
    ELSE UNION { {T \cup {d} :
                     d \in {x \in AllDirs :
                               Len(x) = 1 \/ SubSeq(x, 1, Len(x) - 1) \in T}} :
                 T \in TreesOf(n - 1) }

DirSets == {T \in UNION {TreesOf(n) : n \in 0..MaxDirs} : Cardinality(T) <= MaxDirs}

InitFind ==
    /\ sep \in {"/", "\\"}
    /\ \E T \in DirSets :
          dirTree \in {t \in [T \cup {<<>>} -> BOOLEAN] : t[<<>>]}
    /\ stack = << <<>> >>
    /\ subpkg_paths = {}
    /\ packages = <<pkg_name>>
    /\ pkg_data = [k \in {""} |-> <<"*">>]
    /\ records = <<>>
    /\ findPc = "walk"
    /\ TagsUnused
    /\ DepsUnused
    /\ BuildUnused
    /\ CmpUnused

\* os.walk yields the directory on top and will yield its sub-directories
\* next, in some order
Yield(dir) ==
    /\ findPc = "walk"
    /\ Len(stack) > 0
    /\ dir = Head(stack)
    /\ \E o \in Orders(Children(dir)) : stack' = o \o Tail(stack)

\* a __pycache__ directory: continue
WalkPycache ==
    /\ \E dir \in DOMAIN dirTree :
          /\ Yield(dir)
          /\ basename(dir) = "__pycache__"
    /\ UNCHANGED <<sep, dirTree, subpkg_paths, packages, pkg_data, records, findPc>>
    /\ UNCHANGED notFindVars

\* the root itself: continue
WalkRoot ==
    /\ \E dir \in DOMAIN dirTree :
          /\ Yield(dir)
          /\ basename(dir) # "__pycache__"
          /\ Len(dir) = 0
    /\ UNCHANGED <<sep, dirTree, subpkg_paths, packages, pkg_data, records, findPc>>
    /\ UNCHANGED notFindVars

\* a directory with an __init__.py: a sub-package
WalkSubpkg ==
    /\ \E dir \in DOMAIN dirTree :
          /\ Yield(dir)
          /\ basename(dir) # "__pycache__"
          /\ Len(dir) > 0
          /\ dirTree[dir]
          /\ subpkg_paths' = subpkg_paths \cup {relpath(dir)}
          /\ packages' = Append(packages,
                 Join(<<pkg_name>> \o Split(relpath(dir), sep), "."))
    /\ UNCHANGED <<sep, dirTree, pkg_data, records, findPc>>
    /\ UNCHANGED notFindVars

\* a directory without __init__.py: data of the nearest package
WalkData ==
    /\ \E dir \in DOMAIN dirTree :
          /\ Yield(dir)
          /\ basename(dir) # "__pycache__"
          /\ Len(dir) > 0
          /\ ~dirTree[dir]
          /\ LET found == find_nearest_pkg(relpath(dir))
                 pattern == pjoin(found[2], "*")
             IN /\ pkg_data' = AppendTo(pkg_data, found[1], pattern)
                /\ records' = Append(records,
                       [dir |-> dir, pkg |-> found[1], pattern |-> pattern])
    /\ UNCHANGED <<sep, dirTree, subpkg_paths, packages, findPc>>
    /\ UNCHANGED notFindVars

\* the walk is over: the lists are sorted and returned
ReturnPackages ==
    /\ findPc = "walk"
    /\ Len(stack) = 0
    /\ pkg_data' = [k \in DOMAIN pkg_data |-> Sorted(pkg_data[k])]
    /\ packages' = Sorted(packages)
    /\ findPc' = "returned"
    /\ UNCHANGED <<sep, dirTree, stack, subpkg_paths, records>>
    /\ UNCHANGED notFindVars

NextFind == WalkPycache \/ WalkRoot \/ WalkSubpkg \/ WalkData \/ ReturnPackages

SpecFind == InitFind /\ [][NextFind]_vars

(***************************************************************************)
(* Claims about find_packages, checked under SpecFind.                     *)
(***************************************************************************)
\* the directories the walk visits: all but the root and the __pycache__ ones
Visited == {d \in DOMAIN dirTree : Len(d) > 0 /\ basename(d) # "__pycache__"}

\* the lengths of the proper ancestors of d recorded as sub-packages
PackageAncestors(d) ==
    {n \in 1..(Len(d) - 1) : SubSeq(d, 1, n) \in Visited /\ dirTree[SubSeq(d, 1, n)]}

\* the package that owns d's files and d's path relative to it
Owner(d) ==
    IF PackageAncestors(d) = {} THEN <<pkg_name, Join(d, sep)>>
    ELSE LET n == CHOOSE k \in PackageAncestors(d) : \A m \in PackageAncestors(d) : m <= k
         IN <<Join(<<pkg_name>> \o SubSeq(d, 1, n), "."),
              Join(SubSeq(d, n + 1, Len(d)), "/")>>

\* the one pattern recorded for d is <rel>/* under the package that owns d
RecordedUnderOwner(d) ==
    /\ Cardinality({i \in 1..Len(records) : records[i].dir = d}) = 1
    /\ \A i \in 1..Len(records) :
          records[i].dir = d =>
              /\ records[i].pkg = Owner(d)[1]
              /\ records[i].pattern = Owner(d)[2] \o "/*"
              /\ records[i].pkg \in DOMAIN pkg_data
              /\ \E j \in 1..Len(pkg_data[records[i].pkg]) :
                     pkg_data[records[i].pkg][j] = records[i].pattern

\* C7: for every visited directory without __init__.py exactly one pattern
\* <rel>/* is recorded, under the deepest proper ancestor recorded as a
\* sub-package, <rel> being relative to it, or under the top-level package
\* with <rel> relative to the root when there is no such ancestor.
C7_DataUnderNearestPackage ==
    findPc = "returned" =>
        \A d \in Visited : ~dirTree[d] => RecordedUnderOwner(d)

\* C7, the failing tree: a data directory two levels below a sub-package that
\* lies below another, where os.sep is not "/".
C7_NestedOnWindows ==
    /\ findPc = "returned"
    /\ sep = "\\"
    /\ \E d \in Visited : ~dirTree[d] /\ \E n \in PackageAncestors(d) : n >= 2

\* C7 where os.sep is "/": the claim as stated.
C7_DataUnderNearestPackagePosix ==
    findPc = "returned" /\ sep = "/" =>
        \A d \in Visited : ~dirTree[d] => RecordedUnderOwner(d)

(***************************************************************************)
(* dependency.py: Dependency.__eq__ and Dependency.__hash__.               *)
(*                                                                         *)
(* objects holds two Dependency objects made by the constructor; equal is  *)
(* objects[1] == objects[2] and hashes their two hashes.  Python's hash of *)
(* a tuple of strings is a function of the tuple that tells different      *)
(* tuples apart but for collisions: the hash is the tuple itself.          *)
(***************************************************************************)
\* the == of two parsed constraints: they are the same constraint
constraint_eq(c1, c2) == c1 = c2

\* Dependency.__eq__ on two Dependency objects
dependency_eq(a, b) ==
    a.name = b.name /\ constraint_eq(a.constraint, b.constraint)

\* Dependency.__hash__
dependency_hash(d) == <<d.name, d.pretty_constraint>>

EqNames == {"Requests", "requests", "ujson"}

EqConstraintStrings ==
    {">=2.0,<3.0", ">= 2.0, < 3.0", "^1.0", "not a constraint", "=>3.6"}

EqDependencies ==
    {NewDependency(n, c, o) : n \in EqNames, c \in EqConstraintStrings, o \in BOOLEAN}

InitEq ==
    /\ objects \in [1..2 -> EqDependencies]
    /\ cmpPc = "made"
    /\ equal = FALSE
    /\ hashes = <<>>
    /\ TagsUnused
    /\ DepsUnused
    /\ BuildUnused
    /\ FindUnused

\* objects[1] == objects[2], hash(objects[1]), hash(objects[2])
Compare ==
    /\ cmpPc = "made"
    /\ equal' = dependency_eq(objects[1], objects[2])
    /\ hashes' = <<dependency_hash(objects[1]), dependency_hash(objects[2])>>
    /\ cmpPc' = "compared"
    /\ UNCHANGED objects
    /\ UNCHANGED notCmpVars

NextEq == Compare

SpecEq == InitEq /\ [][NextEq]_vars

(***************************************************************************)
(* Claims about Dependency.__eq__ and __hash__, checked under SpecEq.      *)
(***************************************************************************)
\* C11: two Dependency objects that compare equal (same lower-cased name and
\* equal parsed constraint) have the same hash, also when their constraint
\* strings differ.
C11_EqualImpliesSameHash ==
    cmpPc = "compared" /\ equal => hashes[1] = hashes[2]

\* C11, the failing pair: two equal dependencies made from different
\* unparsable strings, both widened to the accept-any constraint.
C11_EqualFromDifferentStrings ==
    /\ cmpPc = "compared" /\ equal
    /\ objects[1].pretty_constraint \in Unparsable
    /\ objects[2].pretty_constraint \in Unparsable
    /\ objects[1].pretty_constraint # objects[2].pretty_constraint

\* C11 where the constraint strings are the same: equal objects then have the
\* same hash.
C11_SameStringSameHash ==
    cmpPc = "compared" /\ equal
        /\ objects[1].pretty_constraint = objects[2].pretty_constraint
    => hashes[1] = hashes[2]

====
